---- MODULE Spec2Model ----
(***************************************************************************)
(* Duolingo guidebook converters: the batch converter                      *)
(* (batch_convert_duolingo.py) and the single page converter               *)
(* (duolingo_to_markdown.py).                                              *)
(*                                                                         *)
(* Text is a sequence of one-character strings, so that joining,           *)
(* stripping and searching are computed and not assumed.  A Python         *)
(* Optional is a tuple of length 0 (None) or 1 (a value).  A parsed        *)
(* document is a tree of text nodes and tags, as BeautifulSoup gives it.   *)
(***************************************************************************)
EXTENDS Integers, Sequences, FiniteSets, TLC

VARIABLES
  pc,       \* position of the running entry point
  start,    \* batch: first unit number of the range
  end,      \* batch: last unit number of the range
  tasks,    \* batch: unit number -> state of its fetch_page_async coroutine
  results,  \* batch: the list asyncio.gather returned / combine_and_save received
  file,     \* the output file: None until written, then Some(text)
  report,   \* what combine_and_save printed: success count, total, failed units
  arg,      \* argument of the function under study; for main, what it holds
  ret       \* its return value

vars == <<pc, start, end, tasks, results, file, report, arg, ret>>

(***************************************************************************)
(* Python values                                                           *)
(***************************************************************************)
None == <<>>

Some(x) == <<x>>

Whitespace == {" ", "\n", "\t"}

RECURSIVE lstrip(_)
lstrip(s) ==
  IF s # <<>> /\ Head(s) \in Whitespace THEN lstrip(Tail(s)) ELSE s

RECURSIVE rstrip(_)
rstrip(s) ==
  IF s # <<>> /\ s[Len(s)] \in Whitespace
  THEN rstrip(SubSeq(s, 1, Len(s) - 1))
  ELSE s

\* str.strip()
strip(s) == rstrip(lstrip(s))

\* sep.join(parts)
RECURSIVE join(_, _)
join(sep, parts) ==
  IF parts = <<>> THEN <<>>
  ELSE IF Len(parts) = 1 THEN parts[1]
  ELSE parts[1] \o sep \o join(sep, Tail(parts))

\* sub in s
contains(sub, s) ==
  \E i \in 1..(Len(s) - Len(sub) + 1) : SubSeq(s, i, i + Len(sub) - 1) = sub

(***************************************************************************)
(* The parsed tree                                                         *)
(***************************************************************************)
TextNode(s) == [kind |-> "text", text |-> s]

Tag(name, class, src, children) ==
  [kind |-> "tag", name |-> name, class |-> class, src |-> src,
   children |-> children]

\* element.descendants: every node below el, in document order
RECURSIVE descendants(_)
descendants(el) ==
  LET kids == el.children
      Walk[k \in 0..Len(kids)] ==
        IF k = 0 THEN <<>>
        ELSE Walk[k - 1] \o <<kids[k]>>
             \o (IF kids[k].kind = "tag" THEN descendants(kids[k]) ELSE <<>>)
  IN Walk[Len(kids)]

\* the class_ filter of find / find_all: '' matches a tag with no class
\* value, any other string matches a tag that carries it
class_matches(node, class_) ==
  IF class_ = "" THEN node.class = {} ELSE class_ \in node.class

is_match(node, name, class_) ==
  node.kind = "tag" /\ node.name = name /\ class_matches(node, class_)

\* el.find_all(name, class_=class_)
find_all(el, name, class_) ==
  SelectSeq(descendants(el), LAMBDA n : is_match(n, name, class_))

\* el.find(name, class_=class_): the first match, or None
find(el, name, class_) ==
  LET all == find_all(el, name, class_)
  IN IF all = <<>> THEN None ELSE Some(all[1])

\* el.find(name): any class
find_name(el, name) ==
  LET all == SelectSeq(descendants(el),
                       LAMBDA n : n.kind = "tag" /\ n.name = name)
  IN IF all = <<>> THEN None ELSE Some(all[1])

\* el.get_text(): the text nodes below el, concatenated
get_text(el) ==
  LET d == descendants(el)
      Cat[k \in 0..Len(d)] ==
        IF k = 0 THEN <<>>
        ELSE Cat[k - 1] \o (IF d[k].kind = "text" THEN d[k].text ELSE <<>>)
  IN Cat[Len(d)]

\* el.get_text(strip=True): each text node stripped, the empty ones dropped
get_text_strip(el) ==
  LET d == descendants(el)
      Cat[k \in 0..Len(d)] ==
        IF k = 0 THEN <<>>
        ELSE Cat[k - 1] \o (IF d[k].kind = "text" THEN strip(d[k].text) ELSE <<>>)
  IN Cat[Len(d)]

(***************************************************************************)
(* extract_dialog_text                                                     *)
(***************************************************************************)
PunctuationTokens == {<<".">>, <<"?">>, <<"!">>, <<",">>}

\* the words of the dotted spans, joined by one space
german_words(text_div) ==
  LET spans == find_all(text_div, "span", "dotted")
  IN join(<<" ">>, [k \in 1..Len(spans) |-> get_text(spans[k])])

\* a plausible slip: the loop over the children without its break
scan_punctuation_no_break(text_div) ==
  LET kids == text_div.children
      Scan[k \in 1..(Len(kids) + 1)] ==
        IF k > Len(kids) THEN <<>>
        ELSE IF kids[k].kind = "text" /\ strip(kids[k].text) \in PunctuationTokens
        THEN strip(kids[k].text) \o Scan[k + 1]
        ELSE Scan[k + 1]
  IN Scan[1]

\* the loop over text_div.children: the first text child that is a
\* punctuation token once stripped, then break
scan_punctuation(text_div) ==
  LET kids == text_div.children
      Scan[k \in 1..(Len(kids) + 1)] ==
        IF k > Len(kids) THEN <<>>
        ELSE IF kids[k].kind = "text" /\ strip(kids[k].text) \in PunctuationTokens
        THEN strip(kids[k].text)
        ELSE Scan[k + 1]
  IN Scan[1]

\* english_span.get_text() if english_span else ''
english_text_of(english_span) ==
  IF english_span # None THEN get_text(english_span[1]) ELSE <<>>

\* the closing if / elif / return None
dialog_text_of(german_text, english_text) ==
  IF german_text # <<>> /\ english_text # <<>>
  THEN Some(german_text \o <<"\n">> \o english_text)
  ELSE IF german_text # <<>> THEN Some(german_text)
  ELSE None

\* the body once text_div is found
text_div_dialog(text_div) ==
  dialog_text_of(german_words(text_div) \o scan_punctuation(text_div),
                 english_text_of(find(text_div, "span", "cAF")))

\* if not text_div: return None
found_div_dialog(found) ==
  IF found = None THEN None ELSE text_div_dialog(found[1])

extract_dialog_text(phrase_div) ==
  found_div_dialog(find(phrase_div, "div", ""))

(***************************************************************************)
(* process_dialog                                                          *)
(***************************************************************************)
\* if phrase: text = extract_dialog_text(phrase)
phrase_text(phrase) ==
  IF phrase # None THEN extract_dialog_text(phrase[1]) ELSE None

\* if text: lines.append(text)
appended(text) ==
  IF text # None /\ text[1] # <<>> THEN <<text[1]>> ELSE <<>>

\* '\n\n'.join(lines) if lines, else None
dialog_of(lines) ==
  IF lines # <<>> THEN Some(join(<<"\n", "\n">>, lines)) ELSE None

\* one line per storyline that has a phrase with text
process_dialog(dialog_div) ==
  LET storylines == find_all(dialog_div, "div", "storyline")
      Lines[k \in 0..Len(storylines)] ==
        IF k = 0 THEN <<>>
        ELSE Lines[k - 1]
             \o appended(phrase_text(find(storylines[k], "div", "phrase")))
  IN dialog_of(Lines[Len(storylines)])

(***************************************************************************)
(* process_tip                                                             *)
(***************************************************************************)
\* ">"
EmptyQuote == <<">">>

\* "> **"
BoldOpen == <<">", " ", "*", "*">>

\* "**"
BoldClose == <<"*", "*">>

\* "> <figure><img src=\""
FigureOpen ==
  <<">", " ", "<", "f", "i", "g", "u", "r", "e", ">", "<", "i", "m", "g", " ",
    "s", "r", "c", "=", "\"">>

\* "\" alt=\"Illustration\"><figcaption>"
FigureAltCaption ==
  <<"\"", " ", "a", "l", "t", "=", "\"", "I", "l", "l", "u", "s", "t", "r", "a",
    "t", "i", "o", "n", "\"", ">", "<", "f", "i", "g", "c", "a", "p", "t", "i",
    "o", "n", ">">>

\* "</figcaption></figure>"
FigureCaptionClose ==
  <<"<", "/", "f", "i", "g", "c", "a", "p", "t", "i", "o", "n", ">", "<", "/",
    "f", "i", "g", "u", "r", "e", ">">>

\* "\" alt=\"Illustration\"></figure>"
FigureAltClose ==
  <<"\"", " ", "a", "l", "t", "=", "\"", "I", "l", "l", "u", "s", "t", "r", "a",
    "t", "i", "o", "n", "\"", ">", "<", "/", "f", "i", "g", "u", "r", "e", ">">>

\* "<br><em>"
EmOpen == <<"<", "b", "r", ">", "<", "e", "m", ">">>

\* "</em>"
EmClose == <<"<", "/", "e", "m", ">">>

\* "yandex"
Yandex == <<"y", "a", "n", "d", "e", "x">>

\* if title: the bolded title line, then an empty quote
title_block(title) ==
  IF title # None
  THEN <<BoldOpen \o get_text(title[1]) \o BoldClose, EmptyQuote>>
  ELSE <<>>

\* a plausible slip: the title is looked for among the direct children only
title_lines_direct(tip_div) ==
  title_block(
    LET own == SelectSeq(tip_div.children,
                         LAMBDA n : n.kind = "tag" /\ n.name = "h3")
    IN IF own = <<>> THEN None ELSE Some(own[1]))

\* title = tip_div.find('h3'): the first h3 anywhere below the tip
title_lines(tip_div) == title_block(find_name(tip_div, "h3"))

\* if text and text.strip(): the quoted text, then an empty quote
quoted(text) ==
  IF text # <<>> /\ strip(text) # <<>>
  THEN <<<<">", " ">> \o text, EmptyQuote>>
  ELSE <<>>

\* a p child
paragraph_lines(element) == quoted(get_text(element))

\* one child of the caption's text div, added to what the loop holds
caption_step(acc, content) ==
  IF acc.broke THEN acc
  ELSE IF content.kind = "text"
  THEN [acc EXCEPT !.german = @ \o content.text]
  ELSE IF content.name = "span"
  THEN IF "cAF" \in content.class
       THEN [acc EXCEPT !.english = get_text(content)]
       ELSE [acc EXCEPT !.german = @ \o get_text(content)]
  ELSE IF content.name = "br"
  THEN [acc EXCEPT !.broke = TRUE]
  ELSE acc

\* ''.join(german_parts).strip(), english_text.strip()
caption_stripped(acc) ==
  [german |-> strip(acc.german), english |-> strip(acc.english)]

\* the loop over inner_div.children: text and plain spans are the German
\* caption up to the first br, a cAF span is the English one
caption_of(inner_div) ==
  LET kids == inner_div.children
      Scan[k \in 0..Len(kids)] ==
        IF k = 0 THEN [german |-> <<>>, english |-> <<>>, broke |-> FALSE]
        ELSE caption_step(Scan[k - 1], kids[k])
  IN caption_stripped(Scan[Len(kids)])

\* the caption's direct div children that are not the playback div
caption_text_divs(caption) ==
  SelectSeq(caption.children,
            LAMBDA n : n.kind = "tag" /\ n.name = "div"
                       /\ "playback" \notin n.class)

\* the last text div decides the caption; with none the data stay
with_caption(acc, text_divs) ==
  IF text_divs = <<>> THEN acc
  ELSE [acc EXCEPT
          !.caption_german = Some(caption_of(text_divs[Len(text_divs)]).german),
          !.caption_english = Some(caption_of(text_divs[Len(text_divs)]).english)]

\* one child of the illustration
illustration_step(acc, child) ==
  IF child.kind # "tag" THEN acc
  ELSE IF child.name = "img"
  THEN IF child.src # <<>> /\ ~contains(Yandex, child.src)
       THEN [acc EXCEPT !.img_src = Some(child.src)]
       ELSE acc
  ELSE IF child.name = "div" /\ "caption" \in child.class
  THEN with_caption(acc, caption_text_divs(child))
  ELSE acc

\* the loop over the illustration's children: the last img whose src is
\* set and is not a yandex pixel, the last text div of a caption
illustration_data(element) ==
  LET kids == element.children
      Scan[k \in 0..Len(kids)] ==
        IF k = 0
        THEN [img_src |-> None, caption_german |-> None, caption_english |-> None]
        ELSE illustration_step(Scan[k - 1], kids[k])
  IN Scan[Len(kids)]

\* caption_parts joined: the German caption, then the English one in <em>
caption_html(d) ==
  (IF d.caption_german # None /\ d.caption_german[1] # <<>>
   THEN d.caption_german[1] ELSE <<>>)
  \o (IF d.caption_english # None /\ d.caption_english[1] # <<>>
      THEN EmOpen \o d.caption_english[1] \o EmClose ELSE <<>>)

\* the figure line, with a figcaption when there is a caption
figure_line(img_src, caption) ==
  IF caption # <<>>
  THEN FigureOpen \o img_src \o FigureAltCaption \o caption \o FigureCaptionClose
  ELSE FigureOpen \o img_src \o FigureAltClose

\* if img_src: an empty quote, the figure, an empty quote
figure_block(d) ==
  IF d.img_src = None THEN <<>>
  ELSE <<EmptyQuote, figure_line(d.img_src[1], caption_html(d)), EmptyQuote>>

\* an illustration child
figure_lines(element) == figure_block(illustration_data(element))

\* what one direct child of the tip adds
tip_child_lines(element) ==
  IF element.kind # "tag" THEN <<>>
  ELSE IF element.name = "p" THEN paragraph_lines(element)
  ELSE IF element.name = "div" /\ "illustration" \in element.class
  THEN figure_lines(element)
  ELSE <<>>

\* the lines assembled before the trailing empty quotes are removed
tip_lines(tip_div) ==
  LET kids == tip_div.children
      Walk[k \in 0..Len(kids)] ==
        IF k = 0 THEN title_lines(tip_div)
        ELSE Walk[k - 1] \o tip_child_lines(kids[k])
  IN Walk[Len(kids)]

\* a plausible slip: the trailing empty quotes are left in place
keep_trailing(lines) == lines

\* while lines and lines[-1] == ">": lines.pop()
RECURSIVE pop_trailing(_)
pop_trailing(lines) ==
  IF lines # <<>> /\ lines[Len(lines)] = EmptyQuote
  THEN pop_trailing(SubSeq(lines, 1, Len(lines) - 1))
  ELSE lines

\* '\n'.join(lines) if lines else None
tip_of(lines) ==
  IF lines # <<>> THEN Some(join(<<"\n">>, lines)) ELSE None

process_tip(tip_div) == tip_of(pop_trailing(tip_lines(tip_div)))

(***************************************************************************)
(* extract_content                                                         *)
(***************************************************************************)
\* "Error: Could not find guide content"
Sentinel ==
  <<"E", "r", "r", "o", "r", ":", " ", "C", "o", "u", "l", "d", " ", "n", "o",
    "t", " ", "f", "i", "n", "d", " ", "g", "u", "i", "d", "e", " ", "c", "o",
    "n", "t", "e", "n", "t">>

\* "Guidebook:"
GuidebookColon == <<"G", "u", "i", "d", "e", "b", "o", "o", "k", ":">>

\* "Lesson "
LessonPrefix == <<"L", "e", "s", "s", "o", "n", " ">>

DigitChars == <<"0", "1", "2", "3", "4", "5", "6", "7", "8", "9">>

\* str(n) of a unit number
RECURSIVE str(_)
str(n) ==
  IF n < 10 THEN <<DigitChars[n + 1]>>
  ELSE str(n \div 10) \o <<DigitChars[(n % 10) + 1]>>

\* the end of the first line of s: the place of its first line break, or
\* one past its end
line_end(s) ==
  IF \E k \in 1..Len(s) : s[k] = "\n"
  THEN CHOOSE k \in 1..Len(s) : s[k] = "\n" /\ \A m \in 1..(k - 1) : s[m] # "\n"
  ELSE Len(s) + 1

\* the places before nl where "Guidebook:" starts
guidebook_places(s, nl) ==
  {j \in 1..(nl - Len(GuidebookColon)) :
     SubSeq(s, j, j + Len(GuidebookColon) - 1) = GuidebookColon}

\* re.sub(r'.*Guidebook:\s*', '', s): on each line, everything up to the
\* last "Guidebook:" of the line goes, with the white space after it
RECURSIVE sub_guidebook(_)
sub_guidebook_line(s, nl, occ) ==
  IF occ = {}
  THEN IF nl > Len(s) THEN s
       ELSE SubSeq(s, 1, nl) \o sub_guidebook(SubSeq(s, nl + 1, Len(s)))
  ELSE sub_guidebook(
         lstrip(SubSeq(s, (CHOOSE k \in occ : \A m \in occ : m <= k)
                          + Len(GuidebookColon), Len(s))))

sub_guidebook(s) ==
  IF s = <<>> THEN <<>>
  ELSE sub_guidebook_line(s, line_end(s), guidebook_places(s, line_end(s)))

\* a plausible slip: a substring test on the class value, which takes a
\* guide-tip block for the guide container
find_guide_substring(soup) ==
  LET all == SelectSeq(descendants(soup),
                       LAMBDA n : n.kind = "tag" /\ n.name = "div"
                                  /\ n.class \cap {"guide", "guide-tip"} # {})
  IN IF all = <<>> THEN None ELSE Some(all[1])

\* soup.find('div', class_='guide')
find_guide(soup) == find(soup, "div", "guide")

\* if lesson_number is not None: "Lesson N: " goes before the title
numbered_title(title_text, lesson_number) ==
  IF lesson_number # None
  THEN LessonPrefix \o str(lesson_number[1]) \o <<":", " ">> \o title_text
  ELSE title_text

\* if title_elem: the "# title" fragment
title_of(title_elem, lesson_number) ==
  IF title_elem = None THEN <<>>
  ELSE << <<"#", " ">>
          \o numbered_title(sub_guidebook(get_text_strip(title_elem[1])),
                            lesson_number)
          \o <<"\n">> >>

\* title_elem = guide.find('h3', class_='zero')
title_fragment(guide, lesson_number) ==
  title_of(find(guide, "h3", "zero"), lesson_number)

\* if dialog_text / if tip_text: the text between two line breaks
block_fragment(text) ==
  IF text # None /\ text[1] # <<>>
  THEN << <<"\n">> \o text[1] \o <<"\n">> >>
  ELSE <<>>

\* the fragment one direct child of the guide adds
body_fragment(element) ==
  IF element.kind # "tag" THEN <<>>
  ELSE IF element.name \in {"h3", "h5"}
  THEN IF element.name = "h3" /\ "zero" \notin element.class
       THEN << <<"\n", "#", "#", "#", " ">> \o get_text_strip(element) \o <<"\n">> >>
       ELSE IF element.name = "h5"
       THEN << <<"\n", "#", "#", "#", "#", "#", " ">> \o get_text_strip(element)
               \o <<"\n">> >>
       ELSE <<>>
  ELSE IF element.name = "hr"
  THEN IF "blue" \notin element.class
       THEN << <<"\n", "-", "-", "-", "\n">> >>
       ELSE <<>>
  ELSE IF element.name = "div" /\ "dialogue" \in element.class
  THEN block_fragment(process_dialog(element))
  ELSE IF element.name = "div" /\ "guide-tip" \in element.class
  THEN block_fragment(process_tip(element))
  ELSE <<>>

\* the fragments of the guide, joined by line breaks
guide_markdown(guide, lesson_number) ==
  LET kids == guide.children
      Walk[k \in 0..Len(kids)] ==
        IF k = 0 THEN title_fragment(guide, lesson_number)
        ELSE Walk[k - 1] \o body_fragment(kids[k])
  IN join(<<"\n">>, Walk[Len(kids)])

\* if not guide: return the sentinel
found_guide_content(guide, lesson_number) ==
  IF guide = None THEN Sentinel ELSE guide_markdown(guide[1], lesson_number)

\* soup is the tree BeautifulSoup(html, 'html.parser') built
extract_content(soup, lesson_number) ==
  found_guide_content(find_guide(soup), lesson_number)

(***************************************************************************)
(* fetch_page_async, fetch_all_pages                                       *)
(***************************************************************************)
\* aiohttp.TCPConnector(limit=10, limit_per_host=5)
limit == 10

limit_per_host == 5

\* the host of base_url.format(i): the same for every unit
url_host(i) == "duome.eu"

\* a plausible slip: range(start, end), which leaves the last unit out
unit_range_exclusive(first, last) == first..(last - 1)

\* range(start, end + 1)
unit_range(first, last) == first..last

NoResponse == [kind |-> "none", status |-> 0, html |-> None]

StatusResponse(status, html) == [kind |-> "status", status |-> status, html |-> html]

\* the try block raised: asyncio.TimeoutError after the total timeout, a
\* transport or decoding error, or whatever extraction threw; the except
\* clause takes them all alike
Raised == [kind |-> "raised", status |-> 0, html |-> None]

rejecting_sentinel(unit_num, content) ==
  IF content = Sentinel THEN <<unit_num, None>> ELSE <<unit_num, Some(content)>>

\* a plausible slip: the sentinel is taken for a failure
fetch_page_async_rejects_sentinel(unit_num, response) ==
  IF response.kind = "status" /\ response.status = 200
  THEN rejecting_sentinel(unit_num,
                          extract_content(response.html[1], Some(unit_num)))
  ELSE <<unit_num, None>>

\* the value the coroutine returns for what the request met
fetch_page_async(unit_num, response) ==
  IF response.kind = "status"
  THEN IF response.status = 200
       THEN <<unit_num, Some(extract_content(response.html[1], Some(unit_num)))>>
       ELSE <<unit_num, None>>
  ELSE <<unit_num, None>>

Settled(response, value) == [st |-> "done", resp |-> response, ret |-> value]

\* a plausible slip: no try/except, so what one request raises leaves the
\* coroutine, gather gives up and the closing session fails the others
settle_uncaught(ts, i, response) ==
  IF response.kind = "status"
  THEN [ts EXCEPT ![i] = Settled(response, fetch_page_async(i, response))]
  ELSE [j \in DOMAIN ts |->
          IF j = i THEN Settled(response, <<j, None>>)
          ELSE IF ts[j].st # "done" THEN Settled(ts[j].resp, <<j, None>>)
          ELSE ts[j]]

\* the coroutine of unit i ends: only its own slot changes
settle(ts, i, response) ==
  [ts EXCEPT ![i] = Settled(response, fetch_page_async(i, response))]

in_flight(ts) == {j \in DOMAIN ts : ts[j].st = "inflight"}

\* a plausible slip: the connector built without limit_per_host
may_connect_total_only(ts, i) == Cardinality(in_flight(ts)) < limit

\* the connector hands out a connection under both of its limits
may_connect(ts, i) ==
  /\ Cardinality(in_flight(ts)) < limit
  /\ Cardinality({j \in in_flight(ts) : url_host(j) = url_host(i)}) < limit_per_host

\* a plausible slip: asyncio.wait(..., return_when=FIRST_COMPLETED)
gather_ready_first(ts) == \E i \in DOMAIN ts : ts[i].st = "done"

\* await asyncio.gather(*tasks) resumes once every task has returned
gather_ready(ts) == \A i \in DOMAIN ts : ts[i].st = "done"

\* gather's list: the return values in the order the tasks were passed
gather_results(ts, first, last) ==
  [k \in 1..Cardinality(unit_range(first, last)) |-> ts[first + k - 1].ret]

(***************************************************************************)
(* combine_and_save                                                        *)
(***************************************************************************)
\* "\n\n---\n\n"
Separator == <<"\n", "\n", "-", "-", "-", "\n", "\n">>

\* e put after the entries of sorted whose key is not greater
inserted(sorted, e) ==
  SelectSeq(sorted, LAMBDA p : p[1] <= e[1]) \o <<e>>
  \o SelectSeq(sorted, LAMBDA p : p[1] > e[1])

\* list.sort(key=lambda x: x[0]): stable, ascending by unit number
RECURSIVE sort_by_unit(_)
sort_by_unit(pairs) ==
  IF pairs = <<>> THEN <<>>
  ELSE inserted(sort_by_unit(SubSeq(pairs, 1, Len(pairs) - 1)), pairs[Len(pairs)])

present_results(rs) == SelectSeq(rs, LAMBDA p : p[2] # None)

\* a plausible slip: the sort left out
valid_results_unsorted(rs) == present_results(rs)

\* the entries with content, sorted by unit number
valid_results(rs) == sort_by_unit(present_results(rs))

\* the loop over valid_results: each content, a separator after all but
\* the last
combined_content(valid) ==
  LET Cat[k \in 0..Len(valid)] ==
        IF k = 0 THEN <<>>
        ELSE Cat[k - 1] \o valid[k][2][1]
             \o (IF k - 1 < Len(valid) - 1 THEN Separator ELSE <<>>)
  IN Cat[Len(valid)]

unit_numbers(pairs) == [k \in 1..Len(pairs) |-> pairs[k][1]]

\* a plausible slip: an empty document is taken for a failure
failed_units_falsy(rs) ==
  unit_numbers(SelectSeq(rs, LAMBDA p : p[2] = None \/ p[2] = Some(<<>>)))

\* the unit numbers whose content is None, in the order of the list
failed_units(rs) == unit_numbers(SelectSeq(rs, LAMBDA p : p[2] = None))

\* what combine_and_save writes and prints
combine_and_save(rs) ==
  [text |-> combined_content(valid_results(rs)),
   success |-> Len(valid_results(rs)),
   total |-> Len(rs),
   failed |-> failed_units(rs)]

(***************************************************************************)
(* Dialog phrases the page can hold                                        *)
(***************************************************************************)
MaxPhraseKids == 4

SeqsUpTo(S, n) == UNION {[1..k -> S] : k \in 0..n}

Span(class, s) == Tag("span", class, <<>>, <<TextNode(s)>>)

PhraseKidPool ==
  { Span({"dotted"}, <<"I", "c", "h">>),
    Span({"dotted"}, <<"b", "i", "n">>),
    TextNode(<<".">>),
    TextNode(<<"\n", "?">>),
    TextNode(<<" ">>),
    Span({"cAF"}, <<"I", " ", "a", "m">>),
    Span({"cAF"}, <<>>),
    Tag("span", {"w"}, <<>>, <<Span({"dotted"}, <<"d", "u">>)>>) }

PlaybackDiv == Tag("div", {"playback"}, <<>>, <<>>)

PlainDiv(kids) == Tag("div", {}, <<>>, kids)

PhraseInputs ==
  {Tag("div", {"phrase"}, <<>>, <<PlaybackDiv>>)}
  \cup {Tag("div", {"phrase"}, <<>>, <<PlaybackDiv, PlainDiv(k)>>) :
          k \in SeqsUpTo(PhraseKidPool, MaxPhraseKids)}

Idle ==
  /\ start = 0 /\ end = 0 /\ tasks = <<>> /\ results = <<>>
  /\ file = None /\ report = None

InitDialog ==
  /\ pc = "dialog_call"
  /\ arg \in PhraseInputs
  /\ ret = None
  /\ Idle

CallExtractDialogText ==
  /\ pc = "dialog_call"
  /\ ret' = extract_dialog_text(arg)
  /\ pc' = "dialog_ret"
  /\ UNCHANGED <<start, end, tasks, results, file, report, arg>>

SpecDialog == InitDialog /\ [][CallExtractDialogText]_vars

(***************************************************************************)
(* Tips the page can hold                                                  *)
(***************************************************************************)
MaxTipKids == 3

Elem(name, class, s) == Tag(name, class, <<>>, <<TextNode(s)>>)

Img(src) == Tag("img", {}, src, <<>>)

\* <div class="caption"><div class="playback"></div><div>Hallo<span
\* class="cAF">Hi</span></div></div>
CaptionDiv ==
  Tag("div", {"caption"}, <<>>,
      <<PlaybackDiv,
        PlainDiv(<<TextNode(<<"H", "a", "l", "l", "o">>),
                   Span({"cAF"}, <<"H", "i">>)>>)>>)

TipKidPool ==
  { Elem("h3", {}, <<"G", "o", "o", "d", " ", "t", "o", " ", "k", "n", "o", "w">>),
    Elem("h4", {}, <<"N">>),
    Elem("p", {}, <<"H", "e", "l", "l", "o">>),
    Elem("p", {}, <<" ">>),
    Elem("p", {}, <<"a", "\n", ">">>),
    Tag("div", {"illustration"}, <<>>, <<Img(<<"i", ".", "p", "n", "g">>), CaptionDiv>>),
    Tag("div", {"illustration"}, <<>>,
        <<Img(<<"y", "a", "n", "d", "e", "x", ".", "r", "u", "/", "p">>)>>),
    Tag("hr", {}, <<>>, <<>>),
    TextNode(<<"\n">>),
    Tag("div", {}, <<>>, <<Elem("h3", {}, <<"T">>)>>) }

TipDiv(kids) == Tag("div", {"guide-tip"}, <<>>, kids)

TipInputs == {TipDiv(k) : k \in SeqsUpTo(TipKidPool, MaxTipKids)}

InitTip ==
  /\ pc = "tip_call"
  /\ arg \in TipInputs
  /\ ret = None
  /\ Idle

CallProcessTip ==
  /\ pc = "tip_call"
  /\ ret' = process_tip(arg)
  /\ pc' = "tip_ret"
  /\ UNCHANGED <<start, end, tasks, results, file, report, arg>>

SpecTip == InitTip /\ [][CallProcessTip]_vars

(***************************************************************************)
(* Pages the site can answer with                                          *)
(***************************************************************************)
MaxGuideKids == 2

\* <h3 class="zero">German Guidebook: Hi</h3>
TitleH3 ==
  Elem("h3", {"zero"},
       <<"G", "e", "r", "m", "a", "n", " ", "G", "u", "i", "d", "e", "b", "o",
         "o", "k", ":", " ", "H", "i">>)

ExamplePlainDiv ==
  PlainDiv(<<Span({"dotted"}, <<"I", "c", "h">>),
             Span({"dotted"}, <<"b", "i", "n">>),
             TextNode(<<".">>),
             Span({"cAF"}, <<"I", " ", "a", "m">>)>>)

ExamplePhrase == Tag("div", {"phrase"}, <<>>, <<PlaybackDiv, ExamplePlainDiv>>)

DialogueDiv ==
  Tag("div", {"dialogue"}, <<>>,
      <<Tag("div", {"storyline"}, <<>>, <<ExamplePhrase>>)>>)

HelloTip == TipDiv(<<Elem("p", {}, <<"H", "e", "l", "l", "o">>)>>)

GuideKidPool ==
  { TitleH3,
    Elem("h3", {}, <<"S">>),
    Elem("h5", {}, <<"U">>),
    Tag("hr", {}, <<>>, <<>>),
    Tag("hr", {"blue"}, <<>>, <<>>),
    DialogueDiv,
    HelloTip,
    TextNode(<<"\n">>) }

GuideDiv(kids) == Tag("div", {"guide"}, <<>>, kids)

\* the root of the parsed document
Soup(kids) == Tag("[document]", {}, <<>>, kids)

NoGuidePool ==
  { HelloTip,
    TitleH3,
    Tag("div", {}, <<>>, <<Elem("p", {}, <<"H", "i">>)>>),
    TextNode(<<"\n">>) }

GuideSoups ==
  {Soup(<<GuideDiv(k)>>) : k \in SeqsUpTo(GuideKidPool, MaxGuideKids)}
  \cup {Soup(<<Tag("body", {}, <<>>, <<TextNode(<<"\n">>), GuideDiv(<<TitleH3>>)>>)>>)}

NoGuideSoups == {Soup(k) : k \in SeqsUpTo(NoGuidePool, MaxGuideKids)}

LessonHints == {None, Some(3), Some(14)}

ExtractInputs ==
  [soup : GuideSoups \cup NoGuideSoups, lesson_number : LessonHints]

InitExtract ==
  /\ pc = "extract_call"
  /\ arg \in ExtractInputs
  /\ ret = None
  /\ Idle

CallExtractContent ==
  /\ pc = "extract_call"
  /\ ret' = Some(extract_content(arg.soup, arg.lesson_number))
  /\ pc' = "extract_ret"
  /\ UNCHANGED <<start, end, tasks, results, file, report, arg>>

SpecExtract == InitExtract /\ [][CallExtractContent]_vars

(***************************************************************************)
(* combine_and_save on any list of results                                 *)
(***************************************************************************)
MaxCombineUnits == 3

Contents == {None, Some(<<"A">>), Some(<<"B">>), Some(<<>>)}

\* lists of (unit number, content or None), each unit number at most once,
\* in any order
ResultLists ==
  {rs \in SeqsUpTo((1..MaxCombineUnits) \X Contents, MaxCombineUnits) :
     \A a, b \in 1..Len(rs) : a # b => rs[a][1] # rs[b][1]}

InitCombine ==
  /\ pc = "combine"
  /\ results \in ResultLists
  /\ start = 0 /\ end = 0 /\ tasks = <<>>
  /\ file = None /\ report = None
  /\ arg = None /\ ret = None

\* main_async: filename = combine_and_save(results, output_file)
CombineAndSave ==
  /\ pc = "combine"
  /\ LET out == combine_and_save(results)
     IN /\ file' = Some(out.text)
        /\ report' = Some([success |-> out.success, total |-> out.total,
                           failed |-> out.failed])
  /\ pc' = "done"
  /\ UNCHANGED <<start, end, tasks, results, arg, ret>>

SpecCombine == InitCombine /\ [][CombineAndSave]_vars

(***************************************************************************)
(* The batch run: main_async                                               *)
(***************************************************************************)
MaxUnit == 6

\* a page with a guide container, titled "German Guidebook: Hi"
GuidePage == Soup(<<GuideDiv(<<TitleH3>>)>>)

\* a page without one
NoGuidePage == Soup(<<HelloTip>>)

\* what a request that got its connection can be answered with
Answers ==
  { StatusResponse(200, Some(GuidePage)),
    StatusResponse(200, Some(NoGuidePage)),
    StatusResponse(404, None),
    Raised }

Init ==
  /\ pc = "main_async"
  /\ start \in 1..MaxUnit
  /\ end \in start..MaxUnit
  /\ tasks = <<>>
  /\ results = <<>>
  /\ file = None
  /\ report = None
  /\ arg = None
  /\ ret = None

\* fetch_all_pages: one coroutine per unit of the range, all handed to
\* gather, each waiting for a connection of the session
CreateTasks ==
  /\ pc = "main_async"
  /\ tasks' = [i \in unit_range(start, end) |->
                 [st |-> "waiting", resp |-> NoResponse, ret |-> None]]
  /\ pc' = "gather"
  /\ UNCHANGED <<start, end, results, file, report, arg, ret>>

\* session.get: the connector gives unit i a connection
Connect(i) ==
  /\ pc = "gather"
  /\ i \in DOMAIN tasks
  /\ tasks[i].st = "waiting"
  /\ may_connect(tasks, i)
  /\ tasks' = [tasks EXCEPT ![i].st = "inflight"]
  /\ UNCHANGED <<pc, start, end, results, file, report, arg, ret>>

\* the request of unit i is answered, or fails in transport
Receive(i) ==
  /\ pc = "gather"
  /\ i \in DOMAIN tasks
  /\ tasks[i].st = "inflight"
  /\ \E response \in Answers : tasks' = settle(tasks, i, response)
  /\ UNCHANGED <<pc, start, end, results, file, report, arg, ret>>

\* ClientTimeout(total=30) runs out for unit i, connected or not
Timeout(i) ==
  /\ pc = "gather"
  /\ i \in DOMAIN tasks
  /\ tasks[i].st \in {"waiting", "inflight"}
  /\ tasks' = settle(tasks, i, Raised)
  /\ UNCHANGED <<pc, start, end, results, file, report, arg, ret>>

\* results = await asyncio.gather(*tasks); return results
GatherReturn ==
  /\ pc = "gather"
  /\ gather_ready(tasks)
  /\ results' = gather_results(tasks, start, end)
  /\ pc' = "combine"
  /\ UNCHANGED <<start, end, tasks, file, report, arg, ret>>

Next ==
  \/ CreateTasks
  \/ \E i \in 1..MaxUnit : Connect(i)
  \/ \E i \in 1..MaxUnit : Receive(i)
  \/ \E i \in 1..MaxUnit : Timeout(i)
  \/ GatherReturn
  \/ CombineAndSave

Spec == Init /\ [][Next]_vars

(***************************************************************************)
(* The single page run: main of duolingo_to_markdown.py                    *)
(***************************************************************************)
\* "https://duome.eu/guidebook/en/de/"
GuidebookUrl ==
  <<"h", "t", "t", "p", "s", ":", "/", "/", "d", "u", "o", "m", "e", ".",
    "e", "u", "/", "g", "u", "i", "d", "e", "b", "o", "o", "k", "/", "e",
    "n", "/", "d", "e", "/">>

\* the urls main is called with: the example one, which ends in /14, one
\* without a number, one whose digits follow no slash, one with leading
\* zeros and a line break after the digits
Urls ==
  { GuidebookUrl \o <<"1", "4">>,
    GuidebookUrl,
    SubSeq(GuidebookUrl, 1, Len(GuidebookUrl) - 1) \o <<"7">>,
    GuidebookUrl \o <<"0", "3", "\n">> }

\* $ of the pattern: the end of the text, or the place before a line break
\* that ends it
before_last_newline(url) ==
  IF url # <<>> /\ url[Len(url)] = "\n" THEN SubSeq(url, 1, Len(url) - 1) ELSE url

\* the number of digits s ends with
RECURSIVE trailing_digits(_)
trailing_digits(s) ==
  IF s # <<>> /\ \E d \in 1..10 : DigitChars[d] = s[Len(s)]
  THEN 1 + trailing_digits(SubSeq(s, 1, Len(s) - 1))
  ELSE 0

\* int(text) of a text of digits
RECURSIVE int(_)
int(digits) ==
  IF digits = <<>> THEN 0
  ELSE 10 * int(SubSeq(digits, 1, Len(digits) - 1))
       + (CHOOSE d \in 0..9 : DigitChars[d + 1] = digits[Len(digits)])

\* the group of the match of /(\d+)$ in s, or None
slash_digits(s, n) ==
  IF n > 0 /\ n < Len(s) /\ s[Len(s) - n] = "/"
  THEN Some(int(SubSeq(s, Len(s) - n + 1, Len(s))))
  ELSE None

\* re.search(r'/(\d+)$', url), the group as an int
url_lesson_number(url) ==
  slash_digits(before_last_newline(url),
               trailing_digits(before_last_newline(url)))

\* if lesson_number is None: the number the url ends with, if any
lesson_number_of(url, lesson_number) ==
  IF lesson_number = None THEN url_lesson_number(url) ELSE lesson_number

\* a plausible slip: the status of the response is not looked at
raise_for_status_skipped(status) == FALSE

\* response.raise_for_status() raises: requests does so for the client
\* and server errors, a status of 400 to 599
raise_for_status(status) == 400 <= status /\ status < 600

\* fetch_page: None stands for an exception let out, of requests.get or of
\* raise_for_status; otherwise response.text
fetch_page(response) ==
  IF response.kind = "raised" THEN None
  ELSE IF raise_for_status(response.status) THEN None
  ELSE response.html

\* what requests.get can meet: pages with and without a guide, answers
\* without a page, a redirect answer that names no place to follow, client
\* and server errors, a transport error
SingleAnswers ==
  { StatusResponse(200, Some(GuidePage)),
    StatusResponse(200, Some(NoGuidePage)),
    StatusResponse(204, Some(Soup(<<>>))),
    StatusResponse(300, Some(NoGuidePage)),
    StatusResponse(404, Some(NoGuidePage)),
    StatusResponse(503, Some(Soup(<<>>))),
    Raised }

\* the file as an earlier run may have left it
OldFiles == {None, Some(<<"o", "l", "d">>)}

InitSingle ==
  /\ pc = "main"
  /\ file \in OldFiles
  /\ \E url \in Urls, lesson_number \in LessonHints :
       arg = [url |-> url, lesson_number |-> lesson_number,
              old_file |-> file,
              response |-> NoResponse, html |-> None,
              extraction |-> "pending", markdown |-> None]
  /\ ret = None
  /\ start = 0 /\ end = 0 /\ tasks = <<>> /\ results = <<>>
  /\ report = None

\* except Exception: the trace is printed, return None
main_except ==
  /\ ret' = None
  /\ pc' = "main_ret"
  /\ UNCHANGED file

\* the lesson number is taken from the url when none is given, then
\* html = fetch_page(url)
FetchPage ==
  /\ pc = "main"
  /\ \E response \in SingleAnswers :
       /\ arg' = [arg EXCEPT
                    !.lesson_number = lesson_number_of(arg.url, @),
                    !.response = response,
                    !.html = fetch_page(response)]
       /\ IF fetch_page(response) = None
          THEN main_except
          ELSE pc' = "fetched" /\ UNCHANGED <<file, ret>>
  /\ UNCHANGED <<start, end, tasks, results, report>>

\* markdown_content = extract_content(html, url, lesson_number)
ExtractContent ==
  /\ pc = "fetched"
  /\ arg' = [arg EXCEPT
               !.extraction = "returned",
               !.markdown = Some(extract_content(arg.html[1], arg.lesson_number))]
  /\ pc' = "extracted"
  /\ UNCHANGED <<start, end, tasks, results, file, report, ret>>

\* extract_content lets an exception out, as the parser or an access to
\* the tree can on markup it cannot handle
ExtractContentRaises ==
  /\ pc = "fetched"
  /\ arg' = [arg EXCEPT !.extraction = "raised"]
  /\ main_except
  /\ UNCHANGED <<start, end, tasks, results, report>>

\* save_markdown(markdown_content); return markdown_content
SaveMarkdown ==
  /\ pc = "extracted"
  /\ file' = arg.markdown
  /\ ret' = arg.markdown
  /\ pc' = "main_ret"
  /\ UNCHANGED <<start, end, tasks, results, report, arg>>

NextSingle ==
  \/ FetchPage
  \/ ExtractContent
  \/ ExtractContentRaises
  \/ SaveMarkdown

SpecSingle == InitSingle /\ [][NextSingle]_vars

(***************************************************************************)
(* Properties                                                              *)
(***************************************************************************)
Min(S) == CHOOSE m \in S : \A x \in S : m <= x

Range(f) == {f[k] : k \in DOMAIN f}

\* the documents doc[i] of the units i of S, lowest unit first, the
\* separator between two of them
RECURSIVE AscendingDocs(_, _)
AscendingDocsFrom(doc, S, m) ==
  doc[m] \o (IF S \ {m} # {} THEN Separator ELSE <<>>)
  \o AscendingDocs(doc, S \ {m})

AscendingDocs(doc, S) ==
  IF S = {} THEN <<>> ELSE AscendingDocsFrom(doc, S, Min(S))

\* the units of a result list whose content is present, and their documents
PresentUnits(rs) == {rs[k][1] : k \in {n \in 1..Len(rs) : rs[n][2] # None}}

DocOf(rs) ==
  [i \in PresentUnits(rs) |->
     rs[CHOOSE k \in 1..Len(rs) : rs[k][1] = i][2][1]]

\* every node below el, as a set
RECURSIVE NodesBelow(_)
NodesBelow(el) ==
  UNION {{el.children[k]} \cup
           (IF el.children[k].kind = "tag" THEN NodesBelow(el.children[k]) ELSE {})
         : k \in 1..Len(el.children)}

HasGuideContainer(soup) ==
  \E n \in NodesBelow(soup) : n.kind = "tag" /\ n.name = "div" /\ "guide" \in n.class

Answered200(t) == t.resp.kind = "status" /\ t.resp.status = 200

\* C1: once fetch_all_pages has returned, its list holds exactly one entry
\* (unit, content or None) for each unit of start..end and no entry for any
\* other unit, whatever mix of 200, non-200, timeouts and exceptions the
\* requests met.
C1_OneEntryPerUnit ==
  pc \in {"combine", "done"} =>
    /\ \A i \in start..end :
         Cardinality({k \in 1..Len(results) : results[k][1] = i}) = 1
    /\ \A k \in 1..Len(results) :
         /\ results[k][1] \in start..end
         /\ results[k][2] = None \/ Len(results[k][2]) = 1

\* fetch_all_pages has returned a list for a range whose requests met a
\* 200, a non-200 and an exception
C1_Witness ==
  /\ pc = "combine"
  /\ Len(results) = end - start + 1
  /\ \E a, b, c \in DOMAIN tasks :
       /\ Answered200(tasks[a]) /\ results[a - start + 1] = tasks[a].ret
       /\ tasks[b].resp.kind = "status" /\ tasks[b].resp.status = 404
       /\ tasks[c].resp.kind = "raised" /\ results[c - start + 1] = <<c, None>>

\* C2: for every result list, in any order, the text written is exactly the
\* documents of the entries whose content is present, in strictly ascending
\* unit order, with "\n\n---\n\n" between consecutive documents and none
\* after the last; {(2, "B"), (1, "A")} gives "A\n\n---\n\nB".
C2_CombinedText ==
  pc = "done" =>
    /\ file = Some(AscendingDocs(DocOf(results), PresentUnits(results)))
    /\ results = << <<2, Some(<<"B">>)>>, <<1, Some(<<"A">>)>> >>
         => file = Some(<<"A", "\n", "\n", "-", "-", "-", "\n", "\n", "B">>)

\* the list {(2, "B"), (1, "A")} was combined into "A\n\n---\n\nB"
C2_Witness ==
  /\ pc = "done"
  /\ results = << <<2, Some(<<"B">>)>>, <<1, Some(<<"A">>)>> >>
  /\ file = Some(<<"A", "\n", "\n", "-", "-", "-", "\n", "\n", "B">>)

\* unit i ends in this step with anything but a 200
FailsNow(i) ==
  /\ tasks[i].st # "done"
  /\ tasks'[i].st = "done"
  /\ ~Answered200(tasks'[i])

\* C3: a fetch task that gets a non-200 status, times out or raises records
\* an absent result for its own unit only: the step changes no sibling task
\* and does not end the gather, and what every unit returns is decided by
\* its own answer alone.
C3_FailureIsolated ==
  /\ [][\A i \in DOMAIN tasks :
          FailsNow(i) =>
            /\ tasks'[i].ret = <<i, None>>
            /\ \A j \in DOMAIN tasks \ {i} : tasks'[j] = tasks[j]
            /\ UNCHANGED <<pc, results, file, report>>]_vars
  /\ [](\A j \in DOMAIN tasks :
          tasks[j].st = "done" =>
            tasks[j].ret =
              <<j, IF Answered200(tasks[j])
                   THEN Some(extract_content(tasks[j].resp.html[1], Some(j)))
                   ELSE None>>)

\* one request raised, one got a 404, and beside them a sibling returned
\* its page and another is still in flight
C3_Witness ==
  /\ pc = "gather"
  /\ \E a, b, c, d \in DOMAIN tasks :
       /\ tasks[a].resp.kind = "raised" /\ tasks[a].ret = <<a, None>>
       /\ tasks[b].resp.kind = "status" /\ tasks[b].resp.status = 404
       /\ tasks[b].ret = <<b, None>>
       /\ Answered200(tasks[c]) /\ tasks[c].ret[2] # None
       /\ tasks[d].st = "inflight"

\* C4: combine_and_save starts, and the file is written, only after every
\* fetch task of the range has returned.
C4_CombineAfterAllTasks ==
  (pc \in {"combine", "done"} \/ file # None \/ report # None) =>
    \A i \in start..end : i \in DOMAIN tasks /\ tasks[i].st = "done"

\* a range of several units was fetched and its file written
C4_Witness ==
  /\ pc = "done"
  /\ file # None
  /\ end - start >= 2
  /\ \A i \in start..end : tasks[i].st = "done"

InFlightUnits == {i \in DOMAIN tasks : tasks[i].st = "inflight"}

WaitingUnits == {i \in DOMAIN tasks : tasks[i].st = "waiting"}

\* C5: at most 10 requests are in flight at once and at most 5 to the one
\* host, although a task exists for every unit of the range; a task over
\* the cap waits, is not dropped, and connects once a connection is free.
C5_ConnectionCaps ==
  /\ Cardinality(InFlightUnits) <= 10
  /\ \A i \in InFlightUnits :
       Cardinality({j \in InFlightUnits : url_host(j) = url_host(i)}) <= 5
  /\ pc # "main_async" => DOMAIN tasks = start..end
  /\ \A i \in DOMAIN tasks : tasks[i].st \in {"waiting", "inflight", "done"}
  /\ \A i \in WaitingUnits :
       (pc = "gather" /\ Cardinality(InFlightUnits) < 5) => ENABLED Connect(i)

\* five requests are in flight and a sixth task waits for a connection
C5_Witness ==
  /\ pc = "gather"
  /\ Cardinality(InFlightUnits) = 5
  /\ WaitingUnits # {}

\* C6: for markup with no guide container extract_content returns
\* "Error: Could not find guide content", with or without a lesson hint.
C6_SentinelWithoutGuide ==
  (pc = "extract_ret" /\ ~HasGuideContainer(arg.soup)) => ret = Some(Sentinel)

\* a page that holds a tip but no guide container was extracted with a
\* lesson hint and gave the sentinel
C6_Witness ==
  /\ pc = "extract_ret"
  /\ arg.soup = Soup(<<HelloTip>>)
  /\ arg.lesson_number = Some(3)
  /\ ret = Some(Sentinel)

\* C7: the reported success count plus the number of reported failed units
\* is the reported total, the total is the length of the result list, and
\* the failed list holds exactly the units whose content is None.
C7_SummaryAddsUp ==
  pc = "done" =>
    /\ report[1].success + Len(report[1].failed) = report[1].total
    /\ report[1].total = Len(results)
    /\ Range(report[1].failed)
         = {results[k][1] : k \in {n \in 1..Len(results) : results[n][2] = None}}
    /\ Cardinality(Range(report[1].failed)) = Len(report[1].failed)

\* a list with a failed unit, a document and an empty document was summed up
C7_Witness ==
  /\ pc = "done"
  /\ Len(report[1].failed) >= 1
  /\ report[1].success >= 2
  /\ \E k \in 1..Len(results) : results[k][2] = Some(<<>>)

\* the plain container of a phrase: its first div without a class
PlainContainerOf(phrase) ==
  LET d == descendants(phrase)
      at == {k \in 1..Len(d) :
               d[k].kind = "tag" /\ d[k].name = "div" /\ d[k].class = {}}
  IN IF at = {} THEN None ELSE Some(d[Min(at)])

\* s1 s2 .. sn with one space between two
Spaced(words) ==
  LET Acc[k \in 0..Len(words)] ==
        IF k = 0 THEN <<>>
        ELSE IF k = 1 THEN words[1]
        ELSE Acc[k - 1] \o <<" ">> \o words[k]
  IN Acc[Len(words)]

DottedWords(td) ==
  LET spans == SelectSeq(descendants(td),
                         LAMBDA n : n.kind = "tag" /\ n.name = "span"
                                    /\ "dotted" \in n.class)
  IN [k \in 1..Len(spans) |-> get_text(spans[k])]

\* the first direct text child that is . ? ! or , once the white space
\* around it is taken off; empty when there is none
FirstPunctuation(td) ==
  LET at == {k \in 1..Len(td.children) :
               /\ td.children[k].kind = "text"
               /\ strip(td.children[k].text) \in {<<".">>, <<"?">>, <<"!">>, <<",">>}}
  IN IF at = {} THEN <<>> ELSE strip(td.children[Min(at)].text)

FirstTranslation(td) ==
  LET d == descendants(td)
      at == {k \in 1..Len(d) :
               d[k].kind = "tag" /\ d[k].name = "span" /\ "cAF" \in d[k].class}
  IN IF at = {} THEN <<>> ELSE get_text(d[Min(at)])

ExpectedDialogText(sentence, translation) ==
  IF sentence = <<>> THEN None
  ELSE IF translation = <<>> THEN Some(sentence)
  ELSE Some(sentence \o <<"\n">> \o translation)

\* C8: extract_dialog_text returns the dotted spans joined by single
\* spaces, then with no space the first direct text child that is one of
\* . ? ! , (only the first), then a line break and the text of the first
\* cAF span if that is not empty; the sentence alone without a translation;
\* None when the sentence is empty or the plain container is missing.
\* Spans "Ich", "bin", text "." and translation "I am" give "Ich bin.\nI am".
C8_DialogText ==
  pc = "dialog_ret" =>
    /\ PlainContainerOf(arg) = None => ret = None
    /\ PlainContainerOf(arg) # None =>
         ret = ExpectedDialogText(
                 Spaced(DottedWords(PlainContainerOf(arg)[1]))
                   \o FirstPunctuation(PlainContainerOf(arg)[1]),
                 FirstTranslation(PlainContainerOf(arg)[1]))
    /\ arg = ExamplePhrase =>
         ret = Some(<<"I", "c", "h", " ", "b", "i", "n", ".", "\n",
                      "I", " ", "a", "m">>)

\* the example phrase was extracted to "Ich bin.\nI am"
C8_Witness ==
  /\ pc = "dialog_ret"
  /\ arg = ExamplePhrase
  /\ ret = Some(<<"I", "c", "h", " ", "b", "i", "n", ".", "\n", "I", " ", "a", "m">>)

\* the text ends with a line that is ">" alone
EndsWithEmptyQuoteLine(text) ==
  \/ text = <<">">>
  \/ Len(text) >= 2 /\ text[Len(text)] = ">" /\ text[Len(text) - 1] = "\n"

\* <div class="guide-tip"><h3>Good to know</h3><p>Hello</p></div>
ExampleTip ==
  TipDiv(<<Elem("h3", {}, <<"G", "o", "o", "d", " ", "t", "o", " ", "k", "n", "o", "w">>),
           Elem("p", {}, <<"H", "e", "l", "l", "o">>)>>)

\* "> **Good to know**\n>\n> Hello"
ExampleTipText ==
  <<">", " ", "*", "*", "G", "o", "o", "d", " ", "t", "o", " ", "k", "n", "o",
    "w", "*", "*", "\n", ">", "\n", ">", " ", "H", "e", "l", "l", "o">>

\* C9 as stated: the text process_tip returns never ends with an empty
\* blockquote line, and is None when nothing remains; the example tip
\* gives "> **Good to know**\n>\n> Hello".
C9_TextNeverEndsWithEmptyQuote ==
  pc = "tip_ret" =>
    /\ ret # None => ~EndsWithEmptyQuoteLine(ret[1])
    /\ arg = ExampleTip => ret = Some(ExampleTipText)

\* the lines kept of the assembled ones: all up to the last that is not ">"
KeptLines(lines) ==
  LET full == {k \in 1..Len(lines) : lines[k] # <<">">>}
  IN IF full = {} THEN <<>>
     ELSE SubSeq(lines, 1, CHOOSE k \in full : \A m \in full : m <= k)

LinesText(lines) ==
  LET Acc[k \in 0..Len(lines)] ==
        IF k = 0 THEN <<>>
        ELSE IF k = 1 THEN lines[1]
        ELSE Acc[k - 1] \o <<"\n">> \o lines[k]
  IN Acc[Len(lines)]

ExpectedTip(kept) ==
  IF kept = <<>> THEN None ELSE Some(LinesText(kept))

\* a direct p child whose own text ends with a line break and ">"
HasQuoteEndedParagraph(tip) ==
  \E k \in 1..Len(tip.children) :
    /\ tip.children[k].kind = "tag"
    /\ tip.children[k].name = "p"
    /\ EndsWithEmptyQuoteLine(get_text(tip.children[k]))

\* C9, amended: the lines process_tip joins never end with an empty
\* blockquote line: the trailing run of them is dropped from the assembled
\* lines, the result is None when nothing remains, and the text ends with
\* a ">" line only when a paragraph's own text ends with a line break and
\* ">"; the example tip gives "> **Good to know**\n>\n> Hello".
C9_JoinedLinesNeverEndWithEmptyQuote ==
  pc = "tip_ret" =>
    /\ ret = ExpectedTip(KeptLines(tip_lines(arg)))
    /\ (ret # None /\ EndsWithEmptyQuoteLine(ret[1])) => HasQuoteEndedParagraph(arg)
    /\ arg = ExampleTip => ret = Some(ExampleTipText)

\* the example tip was turned into its blockquote, the trailing ">" gone
C9_Witness ==
  /\ pc = "tip_ret"
  /\ arg = ExampleTip
  /\ tip_lines(arg)[Len(tip_lines(arg))] = <<">">>
  /\ ret = Some(ExampleTipText)

\* the units answered with a 200 whose page has no guide container
SentinelUnits ==
  {i \in DOMAIN tasks :
     Answered200(tasks[i]) /\ ~HasGuideContainer(tasks[i].resp.html[1])}

\* the file text when unit i stands in it with the sentinel
TextWithSentinelAt(i, present, doc) ==
  AscendingDocs(doc, {j \in present : j < i})
  \o (IF {j \in present : j < i} # {} THEN Separator ELSE <<>>)
  \o Sentinel
  \o (IF {j \in present : j > i} # {} THEN Separator ELSE <<>>)
  \o AscendingDocs(doc, {j \in present : j > i})

\* C10: a page that answers 200 without a guide container is a present
\* result holding the sentinel: counted as a success, not in the failed
\* list, and the sentinel is written into the file at the unit's place.
C10_SentinelCountsAsSuccess ==
  pc = "done" =>
    \A i \in SentinelUnits :
      /\ <<i, Some(Sentinel)>> \in Range(results)
      /\ i \notin Range(report[1].failed)
      /\ report[1].success = Cardinality({j \in DOMAIN tasks : Answered200(tasks[j])})
      /\ file = Some(TextWithSentinelAt(i, PresentUnits(results), DocOf(results)))

\* a run ended with a sentinel page between two pages that have a guide
C10_Witness ==
  /\ pc = "done"
  /\ \E i \in SentinelUnits :
       /\ i - 1 \in DOMAIN tasks /\ Answered200(tasks[i - 1]) /\ i - 1 \notin SentinelUnits
       /\ i + 1 \in DOMAIN tasks /\ Answered200(tasks[i + 1]) /\ i + 1 \notin SentinelUnits
       /\ report[1].failed = <<>>
       /\ contains(Separator \o Sentinel \o Separator, file[1])

\* the header tags of HTML
HeaderTags == {"h1", "h2", "h3", "h4", "h5", "h6"}

\* the headers standing among the direct children of the tip
HeaderChildren(tip) ==
  SelectSeq(tip.children, LAMBDA n : n.kind = "tag" /\ n.name \in HeaderTags)

\* the h3 elements anywhere below the tip, in document order
H3Below(tip) ==
  SelectSeq(descendants(tip), LAMBDA n : n.kind = "tag" /\ n.name = "h3")

\* "> **" text "**"
TitleLine(header) == <<">", " ", "*", "*">> \o get_text(header) \o <<"*", "*">>

StartsWith(prefix, s) ==
  Len(prefix) <= Len(s) /\ SubSeq(s, 1, Len(prefix)) = prefix

\* the places of s where sub stands
Occurrences(sub, s) ==
  {i \in 1..(Len(s) - Len(sub) + 1) : SubSeq(s, i, i + Len(sub) - 1) = sub}

\* the child is a paragraph or an illustration that gives lines of its own
GivesLines(child) ==
  /\ child.kind = "tag"
  /\ \/ child.name = "p" /\ strip(get_text(child)) # <<>>
     \/ /\ child.name = "div"
        /\ "illustration" \in child.class
        /\ \E k \in 1..Len(child.children) :
             /\ child.children[k].kind = "tag"
             /\ child.children[k].name = "img"
             /\ child.children[k].src # <<>>
             /\ ~contains(<<"y", "a", "n", "d", "e", "x">>, child.children[k].src)

HasBody(tip) == \E k \in 1..Len(tip.children) : GivesLines(tip.children[k])

\* the text opens with the title line and an empty blockquote line, and
\* holds the bold opening nowhere else
TitledOnce(text, header) ==
  /\ StartsWith(TitleLine(header) \o <<"\n", ">">>, text)
  /\ Len(text) > Len(TitleLine(header)) + 2 =>
       text[Len(TitleLine(header)) + 3] = "\n"
  /\ Occurrences(<<">", " ", "*", "*">>, text) = {1}

\* C11 as stated: when a header of any level stands among the tip's
\* children, the text opens with its bolded text as the first blockquote
\* line, followed by an empty blockquote line, and the title is there once.
C11_AnyHeaderBecomesTitle ==
  pc = "tip_ret" =>
    (HeaderChildren(arg) # <<>> =>
       /\ ret # None
       /\ TitledOnce(ret[1], HeaderChildren(arg)[1]))

\* C11, amended: the title is the first h3 anywhere below the tip, and no
\* header of another level gives one.  With an h3 the text opens with its
\* bolded text as the first blockquote line, the only bolded line of the
\* text, wherever the h3 stands; an empty blockquote line follows it when
\* a paragraph or a figure gives lines after it, and the title line is the
\* whole text when none does.  Without an h3 the text has no title line.
C11_FirstH3BecomesTitle ==
  pc = "tip_ret" =>
    /\ (H3Below(arg) # <<>> /\ HasBody(arg)) =>
         /\ ret # None
         /\ TitledOnce(ret[1], H3Below(arg)[1])
         /\ Len(ret[1]) > Len(TitleLine(H3Below(arg)[1])) + 3
    /\ (H3Below(arg) # <<>> /\ ~HasBody(arg)) =>
         ret = Some(TitleLine(H3Below(arg)[1]))
    /\ (H3Below(arg) = <<>> /\ ret # None) =>
         Occurrences(<<">", " ", "*", "*">>, ret[1]) = {}

\* a tip whose h3 stands after its paragraph, inside a plain div, was
\* turned into a text that opens with the title
C11_Witness ==
  /\ pc = "tip_ret"
  /\ arg = TipDiv(<<Elem("p", {}, <<"H", "e", "l", "l", "o">>),
                    Tag("div", {}, <<>>, <<Elem("h3", {}, <<"T">>)>>)>>)
  /\ ret = Some(<<">", " ", "*", "*", "T", "*", "*", "\n", ">", "\n",
                  ">", " ", "H", "e", "l", "l", "o">>)

\* fetch_page let an exception out for this answer, as the claim reads it:
\* a transport error, or any status outside 200..299
FetchRaisedNon2xx(response) ==
  \/ response.kind = "raised"
  \/ response.kind = "status" /\ ~(200 <= response.status /\ response.status <= 299)

\* fetch_page let an exception out for this answer: a transport error, or
\* a client or server error status
FetchRaisedError(response) ==
  \/ response.kind = "raised"
  \/ response.kind = "status" /\ 400 <= response.status /\ response.status <= 599

\* the file is as it was before main ran
FileUntouched == file = arg.old_file

\* C12 as stated: in single-page mode, when the fetch raises, a non-2xx
\* status included, or extraction raises, main returns None and the file
\* is not written or changed; the file is written only after fetch and
\* extraction have both succeeded.
C12_AnyNon2xxLeavesFile ==
  /\ (pc = "main_ret"
      /\ (FetchRaisedNon2xx(arg.response) \/ arg.extraction = "raised")) =>
       (ret = None /\ FileUntouched)
  /\ ~FileUntouched =>
       (~FetchRaisedNon2xx(arg.response) /\ arg.extraction = "returned")

\* C12, amended: when the fetch raises, which it does on a transport error
\* and on a status of 400 to 599, or extraction raises, main returns None
\* and the file is not written or changed; the file is written only after
\* fetch and extraction have both succeeded, and then holds what
\* extraction returned, which main returns.  An answer of any other status
\* is a fetched page.
C12_RaisedLeavesFile ==
  /\ (pc = "main_ret"
      /\ (FetchRaisedError(arg.response) \/ arg.extraction = "raised")) =>
       (ret = None /\ FileUntouched)
  /\ pc \in {"main", "fetched", "extracted"} => FileUntouched
  /\ ~FileUntouched =>
       /\ ~FetchRaisedError(arg.response)
       /\ arg.extraction = "returned"
       /\ file = arg.markdown
       /\ ret = arg.markdown
  /\ (pc = "main_ret" /\ arg.response.kind = "status"
      /\ ~FetchRaisedError(arg.response) /\ arg.extraction = "returned") =>
       (file = arg.markdown /\ ret = arg.markdown)

\* main ended on a 404 with None, the file of an earlier run still there
C12_Witness ==
  /\ pc = "main_ret"
  /\ arg.response = StatusResponse(404, Some(NoGuidePage))
  /\ ret = None
  /\ file = Some(<<"o", "l", "d">>)

====
